---- MODULE Spec2Model ----
(***************************************************************************)
(* Model of the DSPy model registry (storage/model_registry.py): a SQLite  *)
(* table `models` plus a directory of pickled artifacts, used by several   *)
(* threads, each through its own connection.                               *)
(*                                                                         *)
(* SQLite semantics used by the model (python sqlite3, default isolation): *)
(*  - a SELECT outside a transaction reads the committed table `db`;       *)
(*  - the first INSERT/UPDATE/DELETE of a connection opens a transaction    *)
(*    and takes the single write lock (`lock`); a writer that finds the    *)
(*    lock taken waits; its changes live in `wdb` until commit;            *)
(*  - commit publishes `wdb` as `db` and releases the lock.                *)
(*                                                                         *)
(* A thread is at `pc`: idle, inside a method (one step per statement that  *)
(* other threads can tell apart), or done with the result in `local`.      *)
(* usedExplicit, hadDelete, nreg, maxEver, prevSA, deletedActive and        *)
(* registered record the calls made so far; no action reads them to decide. *)
(***************************************************************************)
EXTENDS Integers, Sequences, FiniteSets, TLC

(* ---------------- bounds of the model ---------------- *)
MaxOps == 2
MaxSeqOps == 3

Threads == {"t1", "t2"}
SeqThreads == {"s"}
Ids == {"a", "b", "c"}
ModuleTypes == {"m1", "m2"}
Artifacts == {"A", "B"}
(* the ids a caller registers under: concurrent callers have one more unused id,
   so that two of them can register unused ids at the same time *)
RegisterIds(t) == IF t \in SeqThreads THEN Ids ELSE Ids \cup {"d"}

(* `version=None` of register_model / load_model *)
NoVersion == -1
ExplicitVersions == {1}
(* readings of the wall clock (datetime.utcnow): not monotonic, of finite resolution *)
Ticks == {1, 2}

VARIABLES db, wdb, lock, files, pc, local, nops,
          usedExplicit, hadDelete, nreg, maxEver, prevSA, deletedActive, registered,
          lastActive, experiments, evaluations, abRes, snapshots, ptRes, run

vars == <<db, wdb, lock, files, pc, local, nops,
          usedExplicit, hadDelete, nreg, maxEver, prevSA, deletedActive, registered,
          lastActive, experiments, evaluations, abRes, snapshots, ptRes, run>>

hist == <<usedExplicit, hadDelete, nreg, maxEver, prevSA, deletedActive, registered,
          lastActive>>

(* the model registry; the experiment store and the performance tracker *)
registry == <<db, wdb, lock, files, pc, local, hist>>
bench == <<experiments, evaluations, abRes, snapshots, ptRes>>

(* ---------------- data ---------------- *)
EmptyDb == [i \in {} |-> 0]
EmptyFiles == [p \in {} |-> 0]
NoLock == "none"
NoPath == <<>>

(* pickle.dump / pickle.load of the stored module *)
Pickle(module) == <<"pkl", module>>
Unpickle(content) == content[2]

(* f"{module_type}_v{version}_{timestamp}.pkl" *)
FileName(module_type, version, timestamp) == <<module_type, version, timestamp>>

(* a row of table `models`; is_active BOOLEAN DEFAULT FALSE *)
NewRow(module_type, version, file_path) ==
    [module_type |-> module_type, version |-> version,
     file_path |-> file_path, is_active |-> FALSE]

(* python truthiness of an Optional[int] argument: None and 0 are falsy *)
Truthy(version) == version # NoVersion /\ version # 0

RowsOfType(d, module_type) == {i \in DOMAIN d : d[i].module_type = module_type}
ActiveIds(d, module_type) == {i \in RowsOfType(d, module_type) : d[i].is_active}
VersionsOf(d, module_type) == {d[i].version : i \in RowsOfType(d, module_type)}

SetMax(S) == CHOOSE x \in S : \A y \in S : y <= x

(* SELECT MAX(version) FROM models WHERE module_type = ?; None -> 0; + 1 *)
GetNextVersionFirstFree(d, module_type) ==
    CHOOSE v \in 1..(Cardinality(DOMAIN d) + 1) :
        /\ v \notin VersionsOf(d, module_type)
        /\ \A w \in 1..(v - 1) : w \in VersionsOf(d, module_type)

GetNextVersionGlobal(d, module_type) ==
    IF DOMAIN d = {} THEN 1 ELSE SetMax({d[i].version : i \in DOMAIN d}) + 1

GetNextVersion(d, module_type) ==
    IF RowsOfType(d, module_type) = {} THEN 1
    ELSE SetMax(VersionsOf(d, module_type)) + 1

(* UPDATE models SET is_active = FALSE WHERE module_type = ? *)
DeactivateNone(d, module_type) == d

DeactivateFlip(d, module_type) ==
    [i \in DOMAIN d |->
        IF d[i].module_type = module_type
        THEN [d[i] EXCEPT !.is_active = ~ d[i].is_active] ELSE d[i]]

DeactivateAll(d, module_type) ==
    [i \in DOMAIN d |->
        IF d[i].module_type = module_type
        THEN [d[i] EXCEPT !.is_active = FALSE] ELSE d[i]]

(* UPDATE models SET is_active = TRUE WHERE id = ? *)
Activate(d, model_id) ==
    [i \in DOMAIN d |->
        IF i = model_id THEN [d[i] EXCEPT !.is_active = TRUE] ELSE d[i]]

(* DELETE FROM models WHERE id = ? *)
DeleteRowReactivate(d, model_id) ==
    LET rest == [i \in DOMAIN d \ {model_id} |-> d[i]]
        sib == IF model_id \in DOMAIN d
               THEN RowsOfType(rest, d[model_id].module_type) ELSE {}
    IN
    IF model_id \in DOMAIN d /\ d[model_id].is_active /\ sib # {}
    THEN Activate(rest, CHOOSE i \in sib : \A j \in sib : rest[j].version <= rest[i].version)
    ELSE rest

DeleteRow(d, model_id) == [i \in DOMAIN d \ {model_id} |-> d[i]]

(* INSERT INTO models ...; PRIMARY KEY(id), UNIQUE(module_type, version) *)
InsertViolatesIdOnly(d, model_id, module_type, version) == model_id \in DOMAIN d

InsertViolates(d, model_id, module_type, version) ==
    \/ model_id \in DOMAIN d
    \/ \E i \in DOMAIN d : d[i].module_type = module_type /\ d[i].version = version

(* the constraint named by the IntegrityError ("UNIQUE constraint failed: ...") *)
FailedConstraint(d, model_id) ==
    IF model_id \in DOMAIN d THEN "models.id" ELSE "models.module_type, models.version"

(* an INSERT that made the new version the active one would be the first definition *)
InsertRowActivating(d, model_id, row) ==
    [i \in DOMAIN d \cup {model_id} |->
        IF i = model_id THEN [row EXCEPT !.is_active = TRUE]
        ELSE IF d[i].module_type = row.module_type THEN [d[i] EXCEPT !.is_active = FALSE]
        ELSE d[i]]

InsertRow(d, model_id, row) ==
    [i \in DOMAIN d \cup {model_id} |-> IF i = model_id THEN row ELSE d[i]]

WriteFile(fs, path, content) ==
    [p \in DOMAIN fs \cup {path} |-> IF p = path THEN content ELSE fs[p]]

Unlink(fs, path) == [p \in DOMAIN fs \ {path} |-> fs[p]]

(* ORDER BY module_type, version DESC *)
MtRank(module_type) == IF module_type = "m1" THEN 1 ELSE 2

Before(d, i, j) ==
    \/ MtRank(d[i].module_type) < MtRank(d[j].module_type)
    \/ d[i].module_type = d[j].module_type /\ d[i].version > d[j].version

RECURSIVE OrderRows(_, _)
OrderRows(d, S) ==
    IF S = {} THEN <<>>
    ELSE LET first == CHOOSE i \in S : \A j \in S \ {i} : Before(d, i, j)
         IN <<first>> \o OrderRows(d, S \ {first})

(* ---------------- numbers of the benchmarking code ---------------- *)
(* python floats are modelled as exact fractions [n, d] in lowest terms, d > 0;
   x ** 0.5 is not computed: tests on it are made on its square *)
Abs(x) == IF x < 0 THEN -x ELSE x

RECURSIVE Gcd(_, _)
Gcd(a, b) == IF b = 0 THEN a ELSE Gcd(b, a % b)

Rat(n, d) ==
    LET g == Gcd(Abs(n), Abs(d))
        s == IF d < 0 THEN -1 ELSE 1
    IN [n |-> (s * n) \div g, d |-> (s * d) \div g]

RInt(k) == [n |-> k, d |-> 1]
RAdd(x, y) == Rat(x.n * y.d + y.n * x.d, x.d * y.d)
RSub(x, y) == Rat(x.n * y.d - y.n * x.d, x.d * y.d)
RMul(x, y) == Rat(x.n * y.n, x.d * y.d)
RDiv(x, y) == Rat(x.n * y.d, x.d * y.n)
RLess(x, y) == x.n * y.d < y.n * x.d

(* ---------------- experiment store (benchmarking/ab_testing.py) ---------------- *)
Variants == {"baseline", "optimized"}
(* a metrics dict: <<v>> holds v under the key analysed, <<>> has no such key *)
NoScore == <<>>
NoExperiments == [e \in {} |-> 0]

(* a row of table `experiments`: status TEXT DEFAULT 'active' *)
NewExperiment(split_ratio, created_at) ==
    [split_ratio |-> split_ratio, status |-> "active", created_at |-> created_at]

(* a row of table `ab_evaluations` *)
NewEvaluation(experiment_id, variant, metrics) ==
    [experiment_id |-> experiment_id, variant |-> variant, metrics |-> metrics]

(* UPDATE experiments SET status = 'stopped' WHERE id = ? *)
StopToggle(exps, experiment_id) ==
    [e \in DOMAIN exps |->
        IF e = experiment_id
        THEN [exps[e] EXCEPT !.status = IF @ = "active" THEN "stopped" ELSE "active"]
        ELSE exps[e]]

Stop(exps, experiment_id) ==
    [e \in DOMAIN exps |->
        IF e = experiment_id THEN [exps[e] EXCEPT !.status = "stopped"] ELSE exps[e]]

(* SELECT variant, metrics FROM ab_evaluations WHERE experiment_id = ? *)
SelectAllEvaluations(evals, experiment_id) == evals

RECURSIVE SelectEvaluations(_, _)
SelectEvaluations(evals, experiment_id) ==
    IF evals = <<>> THEN <<>>
    ELSE IF Head(evals).experiment_id = experiment_id
         THEN <<Head(evals)>> \o SelectEvaluations(Tail(evals), experiment_id)
         ELSE SelectEvaluations(Tail(evals), experiment_id)

(* metrics.get(metric_key, 0.0) *)
ScoreOf(metrics) == IF metrics = NoScore THEN 0 ELSE metrics[1]

(* lines 267-277: the scores of one variant, in row order *)
RECURSIVE ScoresOf(_, _)
ScoresOf(rows, variant) ==
    IF rows = <<>> THEN <<>>
    ELSE IF Head(rows).variant = variant
         THEN <<ScoreOf(Head(rows).metrics)>> \o ScoresOf(Tail(rows), variant)
         ELSE ScoresOf(Tail(rows), variant)

RECURSIVE SumSeq(_)
SumSeq(scores) == IF scores = <<>> THEN 0 ELSE Head(scores) + SumSeq(Tail(scores))

(* sum(scores) / len(scores) if scores else 0.0 *)
Mean(scores) == IF scores = <<>> THEN RInt(0) ELSE Rat(SumSeq(scores), Len(scores))

(* lines 285-288 *)
ImprovementPercentNonZero(baseline_mean, optimized_mean) ==
    IF baseline_mean # RInt(0)
    THEN RMul(RDiv(RSub(optimized_mean, baseline_mean), baseline_mean), RInt(100))
    ELSE RInt(0)

ImprovementPercent(baseline_mean, optimized_mean) ==
    IF RLess(RInt(0), baseline_mean)
    THEN RMul(RDiv(RSub(optimized_mean, baseline_mean), baseline_mean), RInt(100))
    ELSE RInt(0)

(* sum((x - mean) ** 2 for x in scores) *)
RECURSIVE SumSqDev(_, _)
SumSqDev(scores, mean) ==
    IF scores = <<>> THEN RInt(0)
    ELSE RAdd(RMul(RSub(RInt(Head(scores)), mean), RSub(RInt(Head(scores)), mean)),
              SumSqDev(Tail(scores), mean))

(* the square of (var1 / n1 + var2 / n2) ** 0.5, var = SumSqDev / denominator *)
SquaredError(scores1, denom1, scores2, denom2) ==
    RAdd(RDiv(RDiv(SumSqDev(scores1, Mean(scores1)), RInt(denom1)), RInt(Len(scores1))),
         RDiv(RDiv(SumSqDev(scores2, Mean(scores2)), RInt(denom2)), RInt(Len(scores2))))

(* 1.0 - confidence_level in IEEE doubles: the exact difference, and whether the
   double computed lies above (1), below (-1) or at (0) the double written for the
   exact difference: 1.0 - 0.95 = 0.050000000000000044 > 0.05,
   1.0 - 0.99 = 0.010000000000000009 > 0.01, 1.0 - 0.9 = 0.09999999999999998 < 0.1 *)
ComplementRounding(confidence_level) ==
    IF confidence_level \in {Rat(95, 100), Rat(99, 100)} THEN 1
    ELSE IF confidence_level \in {Rat(9, 10), Rat(8, 10)} THEN -1
    ELSE 0

(* p_value < (1.0 - confidence_level), p_value being 0.05, 0.1 or 1.0 *)
BelowComplement(p_value, confidence_level) ==
    \/ RLess(p_value, RSub(RInt(1), confidence_level))
    \/ p_value = RSub(RInt(1), confidence_level) /\ ComplementRounding(confidence_level) > 0

(* line 333: fewer samples than this in a group give no verdict *)
MinSamples == 3

(* _calculate_significance, lines 326-361; t_stat > c is tested as
   (mean2 - mean1) ** 2 / pooled_se ** 2 > c ** 2, 1.96 ** 2 = 3.8416 *)
CalculateSignificanceWith(min_samples, baseline_scores, optimized_scores, confidence_level) ==
    IF Len(baseline_scores) < min_samples \/ Len(optimized_scores) < min_samples
    THEN [is_significant |-> FALSE, p_value |-> RInt(1)]
    ELSE LET se2 == SquaredError(baseline_scores, Len(baseline_scores) - 1,
                                 optimized_scores, Len(optimized_scores) - 1)
             diff == RSub(Mean(optimized_scores), Mean(baseline_scores))
         IN IF se2 = RInt(0)
            THEN [is_significant |-> FALSE, p_value |-> RInt(1)]
            ELSE LET t2 == RDiv(RMul(diff, diff), se2)
                     p_value == IF RLess(RInt(4), t2) THEN Rat(5, 100)
                                ELSE IF RLess(Rat(38416, 10000), t2) THEN Rat(5, 100)
                                ELSE Rat(1, 10)
                 IN [is_significant |-> BelowComplement(p_value, confidence_level),
                     p_value |-> p_value]

CalculateSignificanceFewer(baseline_scores, optimized_scores, confidence_level) ==
    CalculateSignificanceWith(MinSamples - 1, baseline_scores, optimized_scores, confidence_level)

CalculateSignificance(baseline_scores, optimized_scores, confidence_level) ==
    CalculateSignificanceWith(MinSamples, baseline_scores, optimized_scores, confidence_level)

Max(a, b) == IF a > b THEN a ELSE b

(* _calculate_confidence_interval, lines 363-386: (diff - margin, diff + margin) with
   margin = 1.96 * se, given as diff and se ** 2 *)
CalculateConfidenceInterval(baseline_scores, optimized_scores) ==
    IF baseline_scores = <<>> \/ optimized_scores = <<>>
    THEN [diff |-> RInt(0), se2 |-> RInt(0)]
    ELSE [diff |-> RSub(Mean(optimized_scores), Mean(baseline_scores)),
          se2 |-> SquaredError(baseline_scores, Max(1, Len(baseline_scores) - 1),
                               optimized_scores, Max(1, Len(optimized_scores) - 1))]

(* lines 279-314: the ABTestResults built from the two lists of scores *)
NoStatistics == [baseline_count |-> 0, optimized_count |-> 0]

Statistics(baseline_scores, optimized_scores, confidence_level) ==
    LET significance == CalculateSignificance(baseline_scores, optimized_scores, confidence_level)
    IN [baseline_mean |-> Mean(baseline_scores),
        optimized_mean |-> Mean(optimized_scores),
        baseline_count |-> Len(baseline_scores),
        optimized_count |-> Len(optimized_scores),
        improvement_percent |-> ImprovementPercent(Mean(baseline_scores), Mean(optimized_scores)),
        is_significant |-> significance.is_significant,
        p_value |-> significance.p_value,
        confidence_interval |-> CalculateConfidenceInterval(baseline_scores, optimized_scores)]

(* the outcome of the last call on the experiment store *)
NoAbRes == [op |-> "none", id |-> "", result |-> "", variant |-> "", listed |-> <<>>,
            baseline_scores |-> <<>>, optimized_scores |-> <<>>,
            confidence_level |-> RInt(0), stats |-> NoStatistics]

(* ---------------- performance tracker (benchmarking/performance_tracker.py) ---------------- *)
(* the outcome of the last call on the tracker; <<>> is None or a missing key *)
NoPtRes == [op |-> "none", mt |-> "", history |-> <<>>, threshold |-> RInt(0),
            degradation_detected |-> FALSE, reason |-> "", current_value |-> <<>>,
            baseline_value |-> <<>>, drop_percent |-> <<>>]

(* no optimization run in progress; n counts the runs started *)
NoRun == [stage |-> "idle", trace |-> <<>>, module_type |-> "", baseline |-> <<>>,
          optimized |-> <<>>, baseline_mean |-> RInt(0), optimized_mean |-> RInt(0),
          improvement |-> RInt(0), module |-> "", model_id |-> "", error |-> "",
          db0 |-> EmptyDb, files0 |-> EmptyFiles, n |-> 0]

(* ---------------- threads ---------------- *)
Idle == [op |-> "none", id |-> "", mt |-> "", version |-> NoVersion, art |-> "",
         path |-> NoPath, kind |-> "", row |-> <<>>, result |-> "", value |-> "",
         listed |-> <<>>, expect |-> ""]

NoSA == [valid |-> FALSE, id |-> "", db |-> EmptyDb, n |-> 0]

(* a registry constructed over an existing database (CREATE TABLE IF NOT EXISTS)
   starts with what earlier runs stored: nothing, or two versions of m1 registered
   in turn, the first one activated (register a, register b, set_active a from the
   empty registry) *)
StoredDb ==
    [i \in {"a", "b"} |->
        IF i = "a"
        THEN [module_type |-> "m1", version |-> 1, file_path |-> FileName("m1", 1, 1),
              is_active |-> TRUE]
        ELSE [module_type |-> "m1", version |-> 2, file_path |-> FileName("m1", 2, 1),
              is_active |-> FALSE]]

StoredFiles ==
    [p \in {FileName("m1", 1, 1), FileName("m1", 2, 1)} |->
        IF p = FileName("m1", 1, 1) THEN Pickle("A") ELSE Pickle("B")]

(* no call made yet *)
InitCalls ==
    /\ wdb = EmptyDb
    /\ lock = NoLock
    /\ pc = [t \in Threads \cup SeqThreads |-> "idle"]
    /\ local = [t \in Threads \cup SeqThreads |-> Idle]
    /\ nops = 0
    /\ usedExplicit = {}
    /\ hadDelete = {}
    /\ prevSA = NoSA
    /\ deletedActive = {}
    /\ experiments = NoExperiments
    /\ evaluations = <<>>
    /\ abRes = NoAbRes
    /\ ptRes = NoPtRes
    /\ run = NoRun

InitCommon ==
    /\ InitCalls
    /\ snapshots = <<>>

InitEmpty ==
    /\ db = EmptyDb
    /\ files = EmptyFiles
    /\ maxEver = [m \in ModuleTypes |-> 0]
    /\ nreg = [m \in ModuleTypes |-> 0]
    /\ registered = [i \in {} |-> ""]
    /\ lastActive = [m \in ModuleTypes |-> ""]

InitStored ==
    /\ db = StoredDb
    /\ files = StoredFiles
    /\ maxEver = [m \in ModuleTypes |-> IF m = "m1" THEN 2 ELSE 0]
    /\ nreg = [m \in ModuleTypes |-> IF m = "m1" THEN 2 ELSE 0]
    /\ registered = [i \in {"a", "b"} |-> IF i = "a" THEN "A" ELSE "B"]
    /\ lastActive = [m \in ModuleTypes |-> IF m = "m1" THEN "a" ELSE ""]

Init == InitCommon /\ (InitEmpty \/ InitStored)

InitOverStored == InitCommon /\ InitStored

(* the number of calls a run makes is bounded *)
Budget(t) == IF t \in SeqThreads THEN MaxSeqOps ELSE MaxOps

CanCall(t) == pc[t] = "idle" /\ nops < Budget(t)

(* a call other than a repeated set_active(id) ends the "twice in a row" window *)
Call(t, rec, next) ==
    /\ local' = [local EXCEPT ![t] = rec]
    /\ pc' = [pc EXCEPT ![t] = next]
    /\ nops' = nops + 1
    /\ prevSA' = IF rec.op = "set_active" /\ prevSA.valid /\ rec.id = prevSA.id
                 THEN prevSA ELSE NoSA

Goto(t, next) == pc' = [pc EXCEPT ![t] = next]

Finish(t, result) ==
    /\ local' = [local EXCEPT ![t].result = result]
    /\ pc' = [pc EXCEPT ![t] = "done"]

(* the call returns (or raises) to its caller *)
Return(t) ==
    /\ pc[t] = "done"
    /\ pc' = [pc EXCEPT ![t] = "idle"]
    /\ local' = [local EXCEPT ![t] = Idle]
    /\ UNCHANGED <<bench, run, db, wdb, lock, files, nops, hist>>

(* ---------------- register_model ---------------- *)
(* the call with lines 103-105: version = _get_next_version(module_type) *)
RegisterModel(t) ==
    /\ CanCall(t)
    /\ \E model_id \in RegisterIds(t), module_type \in ModuleTypes, module \in Artifacts,
          version \in ExplicitVersions \cup {NoVersion} :
          Call(t, [Idle EXCEPT !.op = "register", !.id = model_id, !.mt = module_type,
                               !.art = module, !.kind = IF version = NoVersion THEN "auto" ELSE "explicit",
                               !.version = IF version = NoVersion
                                           THEN GetNextVersion(db, module_type)
                                           ELSE version],
               "reg_write")
    /\ UNCHANGED <<bench, run, db, wdb, lock, files, usedExplicit, hadDelete, nreg, maxEver, deletedActive, registered, lastActive>>

(* lines 107-113: the artifact is written before the row is inserted *)
RegWriteFile(t) ==
    /\ pc[t] = "reg_write"
    /\ \E timestamp \in Ticks :
          LET path == FileName(local[t].mt, local[t].version, timestamp)
          IN /\ files' = WriteFile(files, path, Pickle(local[t].art))
             /\ local' = [local EXCEPT ![t].path = path]
    /\ Goto(t, "reg_insert")
    /\ UNCHANGED <<bench, run, db, wdb, lock, nops, hist>>

(* lines 121-130: INSERT; a constraint violation raises sqlite3.IntegrityError,
   the connection's context manager rolls back *)
RegInsertFails(t) ==
    /\ pc[t] = "reg_insert"
    /\ lock = NoLock
    /\ InsertViolates(db, local[t].id, local[t].mt, local[t].version)
    /\ local' = [local EXCEPT ![t].result = "IntegrityError",
                              ![t].value = FailedConstraint(db, local[t].id)]
    /\ Goto(t, "done")
    /\ UNCHANGED <<bench, run, db, wdb, lock, files, nops, hist>>

RegInsert(t) ==
    /\ pc[t] = "reg_insert"
    /\ lock = NoLock
    /\ ~ InsertViolates(db, local[t].id, local[t].mt, local[t].version)
    /\ lock' = t
    /\ wdb' = InsertRow(db, local[t].id, NewRow(local[t].mt, local[t].version, local[t].path))
    /\ Goto(t, "reg_commit")
    /\ UNCHANGED <<bench, run, db, files, local, nops, hist>>

(* line 131: conn.commit() *)
RegCommit(t) ==
    /\ pc[t] = "reg_commit"
    /\ db' = wdb
    /\ wdb' = EmptyDb
    /\ lock' = NoLock
    /\ Finish(t, "ok")
    /\ usedExplicit' = IF local[t].kind = "explicit"
                       THEN usedExplicit \cup {local[t].mt} ELSE usedExplicit
    /\ nreg' = [nreg EXCEPT ![local[t].mt] = @ + 1]
    /\ maxEver' = [maxEver EXCEPT ![local[t].mt] =
                      IF local[t].version > @ THEN local[t].version ELSE @]
    /\ registered' = [i \in DOMAIN registered \cup {local[t].id} |->
                         IF i = local[t].id THEN local[t].art ELSE registered[i]]
    /\ UNCHANGED <<bench, run, files, nops, hadDelete, prevSA, deletedActive, lastActive>>

(* ---------------- load_model ---------------- *)
LookupVersions == {0, 1}

(* lines 158-173: which SELECT runs is decided by the truthiness of the arguments;
   fetchone() returns one matching row or None *)
LoadSelect(d, model_id, module_type, version) ==
    IF model_id # "" THEN {i \in DOMAIN d : i = model_id}
    ELSE IF Truthy(version)
         THEN {i \in RowsOfType(d, module_type) : d[i].version = version}
         ELSE ActiveIds(d, module_type)

(* the call with lines 155-181 *)
LoadModel(t) ==
    /\ CanCall(t)
    /\ \E model_id \in Ids \cup {""}, module_type \in ModuleTypes,
          version \in LookupVersions \cup {NoVersion} :
          /\ model_id # "" => (module_type = "m1" /\ version = NoVersion)
          /\ LET found == LoadSelect(db, model_id, module_type, version)
                 rec == [Idle EXCEPT !.op = "load", !.id = model_id,
                                     !.mt = IF model_id # "" THEN "" ELSE module_type,
                                     !.version = version,
                                     !.kind = IF model_id # "" THEN "id"
                                              ELSE IF version # NoVersion THEN "version"
                                              ELSE "active"]
             IN IF found = {}
                THEN Call(t, [rec EXCEPT !.result = "NotFound"], "done")
                ELSE \E i \in found :
                        Call(t, [rec EXCEPT !.row = <<[id |-> i, module_type |-> db[i].module_type,
                                                       version |-> db[i].version]>>,
                                            !.path = db[i].file_path,
                                            !.expect = registered[i]],
                             "load_exists")
    /\ UNCHANGED <<bench, run, db, wdb, lock, files, usedExplicit, hadDelete, nreg, maxEver, deletedActive, registered, lastActive>>

(* lines 185-187: raise FileNotFoundError *)
LoadExists(t) ==
    /\ pc[t] = "load_exists"
    /\ IF local[t].path \in DOMAIN files
       THEN Goto(t, "load_read") /\ UNCHANGED local
       ELSE Finish(t, "ArtifactMissing")
    /\ UNCHANGED <<bench, run, db, wdb, lock, files, nops, hist>>

(* lines 189-199: open() raises FileNotFoundError as well *)
LoadRead(t) ==
    /\ pc[t] = "load_read"
    /\ IF local[t].path \in DOMAIN files
       THEN /\ local' = [local EXCEPT ![t].result = "ok",
                                      ![t].value = Unpickle(files[local[t].path])]
            /\ Goto(t, "done")
       ELSE Finish(t, "ArtifactMissing")
    /\ UNCHANGED <<bench, run, db, wdb, lock, files, nops, hist>>

(* ---------------- set_active_model ---------------- *)
(* the call with lines 210-218: SELECT module_type; raise ValueError *)
SetActiveModel(t) ==
    /\ CanCall(t)
    /\ \E model_id \in Ids :
          IF model_id \in DOMAIN db
          THEN Call(t, [Idle EXCEPT !.op = "set_active", !.id = model_id,
                                    !.mt = db[model_id].module_type], "sa_deactivate")
          ELSE Call(t, [Idle EXCEPT !.op = "set_active", !.id = model_id,
                                    !.result = "NotFound"], "done")
    /\ UNCHANGED <<bench, run, db, wdb, lock, files, usedExplicit, hadDelete, nreg, maxEver, deletedActive, registered, lastActive>>

(* lines 221-224: the first UPDATE opens the transaction *)
SaDeactivateAutocommit(t) ==
    /\ pc[t] = "sa_deactivate"
    /\ lock = NoLock
    /\ lock' = t
    /\ db' = DeactivateAll(db, local[t].mt)
    /\ wdb' = db'
    /\ Goto(t, "sa_activate")
    /\ UNCHANGED <<bench, run, files, local, nops, hist>>

SaDeactivate(t) ==
    /\ pc[t] = "sa_deactivate"
    /\ lock = NoLock
    /\ lock' = t
    /\ wdb' = DeactivateAll(db, local[t].mt)
    /\ Goto(t, "sa_activate")
    /\ UNCHANGED <<bench, run, db, files, local, nops, hist>>

(* lines 227-230 *)
SaActivate(t) ==
    /\ pc[t] = "sa_activate"
    /\ wdb' = Activate(wdb, local[t].id)
    /\ Goto(t, "sa_commit")
    /\ UNCHANGED <<bench, run, db, lock, files, local, nops, hist>>

(* line 232 *)
SaCommit(t) ==
    /\ pc[t] = "sa_commit"
    /\ db' = wdb
    /\ wdb' = EmptyDb
    /\ lock' = NoLock
    /\ Finish(t, "ok")
    /\ prevSA' = IF prevSA.valid /\ prevSA.id = local[t].id
                 THEN [prevSA EXCEPT !.n = 2]
                 ELSE [valid |-> TRUE, id |-> local[t].id, db |-> wdb, n |-> 1]
    /\ deletedActive' = IF local[t].id \in DOMAIN wdb
                         THEN deletedActive \ {wdb[local[t].id].module_type}
                         ELSE deletedActive
    /\ lastActive' = [lastActive EXCEPT ![local[t].mt] = local[t].id]
    /\ UNCHANGED <<bench, run, files, nops, usedExplicit, hadDelete, nreg, maxEver, registered>>

(* ---------------- delete_model ---------------- *)
(* the call with lines 334-339: SELECT file_path; nothing to do without a row *)
DeleteModel(t) ==
    /\ CanCall(t)
    /\ \E model_id \in Ids :
          IF model_id \in DOMAIN db
          THEN Call(t, [Idle EXCEPT !.op = "delete", !.id = model_id,
                                    !.mt = db[model_id].module_type,
                                    !.kind = IF db[model_id].is_active THEN "active" ELSE "inactive",
                                    !.path = db[model_id].file_path], "del_unlink")
          ELSE Call(t, [Idle EXCEPT !.op = "delete", !.id = model_id,
                                    !.result = "ok"], "done")
    /\ UNCHANGED <<bench, run, db, wdb, lock, files, usedExplicit, hadDelete, nreg, maxEver, deletedActive, registered, lastActive>>

(* lines 340-342 *)
DelUnlink(t) ==
    /\ pc[t] = "del_unlink"
    /\ files' = Unlink(files, local[t].path)
    /\ Goto(t, "del_delete")
    /\ UNCHANGED <<bench, run, db, wdb, lock, local, nops, hist>>

(* line 345 *)
DelDelete(t) ==
    /\ pc[t] = "del_delete"
    /\ lock = NoLock
    /\ lock' = t
    /\ wdb' = DeleteRow(db, local[t].id)
    /\ Goto(t, "del_commit")
    /\ UNCHANGED <<bench, run, db, files, local, nops, hist>>

(* line 346 *)
DelCommit(t) ==
    /\ pc[t] = "del_commit"
    /\ db' = wdb
    /\ wdb' = EmptyDb
    /\ lock' = NoLock
    /\ Finish(t, "ok")
    /\ LET gone == DOMAIN db \ DOMAIN wdb
       IN /\ hadDelete' = hadDelete \cup {db[i].module_type : i \in gone}
          /\ deletedActive' = deletedActive \cup
                                  {db[i].module_type : i \in {j \in gone : db[j].is_active}}
          /\ registered' = [i \in DOMAIN registered \ gone |-> registered[i]]
          /\ lastActive' = [m \in ModuleTypes |->
                               IF lastActive[m] \in gone THEN "" ELSE lastActive[m]]
    /\ UNCHANGED <<bench, run, files, nops, usedExplicit, nreg, maxEver, prevSA>>

(* ---------------- list_models ---------------- *)
(* lines 277-312, one SELECT *)
ListSelect(d, module_type, active_only) ==
    {i \in DOMAIN d : /\ module_type # "" => d[i].module_type = module_type
                      /\ active_only => d[i].is_active}

ListModels(t) ==
    /\ CanCall(t)
    /\ \E module_type \in ModuleTypes \cup {""}, active_only \in BOOLEAN :
          Call(t, [Idle EXCEPT !.op = "list", !.mt = module_type,
                               !.kind = IF active_only THEN "active" ELSE "all",
                               !.result = "ok",
                               !.listed = OrderRows(db, ListSelect(db, module_type, active_only))],
               "done")
    /\ UNCHANGED <<bench, run, db, wdb, lock, files, usedExplicit, hadDelete, nreg, maxEver, deletedActive, registered, lastActive>>

(* ---------------- experiment store: operations ---------------- *)
(* one caller, one call at a time; every method is one statement and its commit *)
MaxABOps == 4

(* f"exp_{uuid.uuid4().hex[:12]}": an id no experiment has yet *)
ExperimentIds == {"e1", "e2"}
FreshId(exps) == IF "e1" \notin DOMAIN exps THEN "e1" ELSE "e2"
(* the ids a caller passes: those create_experiment returned, or one it never returned *)
UnknownId == "x"
CallerIds == DOMAIN experiments \cup {UnknownId}

SplitRatios == {Rat(-1, 2), RInt(0), Rat(1, 2), RInt(1), Rat(3, 2)}
(* values of random.random(), in [0, 1) *)
RandomDraws == {RInt(0), Rat(3, 4)}
RecordedVariants == Variants \cup {"control"}
RecordedMetrics == {NoScore, <<2>>}
(* confidence_level: float = 0.95 *)
DefaultConfidence == Rat(95, 100)
StatusFilters == {"", "active", "stopped"}

AbCall == nops < MaxABOps /\ nops' = nops + 1

(* lines 116-162 *)
CreateExperiment ==
    /\ AbCall
    /\ DOMAIN experiments # ExperimentIds
    /\ \E split_ratio \in SplitRatios, created_at \in Ticks :
          LET experiment_id == FreshId(experiments)
          IN /\ experiments' = [e \in DOMAIN experiments \cup {experiment_id} |->
                                   IF e = experiment_id
                                   THEN NewExperiment(split_ratio, created_at)
                                   ELSE experiments[e]]
             /\ abRes' = [NoAbRes EXCEPT !.op = "create", !.id = experiment_id, !.result = "ok"]
    /\ UNCHANGED <<registry, run, evaluations, snapshots, ptRes>>

(* lines 164-196: raise ValueError *)
AssignVariant ==
    /\ AbCall
    /\ \E experiment_id \in CallerIds, draw \in RandomDraws :
          abRes' = IF experiment_id \notin DOMAIN experiments
                   THEN [NoAbRes EXCEPT !.op = "assign", !.id = experiment_id,
                                        !.result = "NotFound"]
                   ELSE [NoAbRes EXCEPT !.op = "assign", !.id = experiment_id,
                                        !.result = "ok",
                                        !.variant = IF RLess(draw, experiments[experiment_id].split_ratio)
                                                    THEN "baseline" ELSE "optimized"]
    /\ UNCHANGED <<registry, run, experiments, evaluations, snapshots, ptRes>>

(* lines 198-232; FOREIGN KEY (experiment_id) is declared (line 98) and not
   enforced: no connection runs PRAGMA foreign_keys = ON *)
RecordEvaluation ==
    /\ AbCall
    /\ \E experiment_id \in CallerIds, variant \in RecordedVariants,
          metrics \in RecordedMetrics :
          /\ evaluations' = Append(evaluations, NewEvaluation(experiment_id, variant, metrics))
          /\ abRes' = [NoAbRes EXCEPT !.op = "record", !.id = experiment_id,
                                      !.variant = variant, !.result = "ok"]
    /\ UNCHANGED <<registry, run, experiments, snapshots, ptRes>>

(* lines 234-324: raise ValueError when no row is selected *)
AnalyzeResults ==
    /\ AbCall
    /\ \E experiment_id \in CallerIds :
          LET rows == SelectEvaluations(evaluations, experiment_id)
              baseline_scores == ScoresOf(rows, "baseline")
              optimized_scores == ScoresOf(rows, "optimized")
          IN abRes' = IF rows = <<>>
                      THEN [NoAbRes EXCEPT !.op = "analyze", !.id = experiment_id,
                                           !.result = "NotFound"]
                      ELSE [NoAbRes EXCEPT !.op = "analyze", !.id = experiment_id,
                                           !.result = "ok",
                                           !.baseline_scores = baseline_scores,
                                           !.optimized_scores = optimized_scores,
                                           !.confidence_level = DefaultConfidence,
                                           !.stats = Statistics(baseline_scores, optimized_scores,
                                                                DefaultConfidence)]
    /\ UNCHANGED <<registry, run, experiments, evaluations, snapshots, ptRes>>

(* lines 388-399: an unknown id updates no row *)
StopExperiment ==
    /\ AbCall
    /\ \E experiment_id \in CallerIds :
          /\ experiments' = Stop(experiments, experiment_id)
          /\ abRes' = [NoAbRes EXCEPT !.op = "stop", !.id = experiment_id, !.result = "ok"]
    /\ UNCHANGED <<registry, run, evaluations, snapshots, ptRes>>

(* lines 401-423: WHERE status = ? if status is truthy; ORDER BY created_at DESC
   leaves the order of rows created at the same reading of the clock open *)
ListOrders(exps, status) ==
    LET S == {e \in DOMAIN exps : status # "" => exps[e].status = status}
    IN {order \in [1..Cardinality(S) -> S] :
           /\ \A i, j \in 1..Cardinality(S) : i # j => order[i] # order[j]
           /\ \A i, j \in 1..Cardinality(S) :
                 i < j => exps[order[i]].created_at >= exps[order[j]].created_at}

ListExperiments ==
    /\ AbCall
    /\ \E status \in StatusFilters :
          \E order \in ListOrders(experiments, status) :
             abRes' = [NoAbRes EXCEPT !.op = "list", !.variant = status, !.result = "ok",
                                      !.listed = order]
    /\ UNCHANGED <<registry, run, experiments, evaluations, snapshots, ptRes>>

(* analyze_results' computation on two lists of scores, lines 279-314 *)
MaxSamples == 3
Scores == {-1, 0, 1, 2}
ScoreLists == UNION {[1..n -> Scores] : n \in 0..MaxSamples}
Confidences == {Rat(95, 100), Rat(99, 100)}

ComputeStatistics ==
    /\ nops = 0
    /\ nops' = 1
    /\ \E baseline_scores \in ScoreLists, optimized_scores \in ScoreLists,
          confidence_level \in Confidences :
          abRes' = [NoAbRes EXCEPT !.op = "statistics", !.result = "ok",
                                   !.baseline_scores = baseline_scores,
                                   !.optimized_scores = optimized_scores,
                                   !.confidence_level = confidence_level,
                                   !.stats = Statistics(baseline_scores, optimized_scores,
                                                        confidence_level)]
    /\ UNCHANGED <<registry, run, experiments, evaluations, snapshots, ptRes>>

(* ---------------- performance tracker: operations ---------------- *)
MaxPTOps == 4

(* metrics dicts of snapshots: <<v>> holds v under the key checked, <<>> lacks it *)
SnapshotMetrics == {<<>>, <<-1>>, <<1>>, <<2>>}
(* threshold: float = 0.1 *)
Thresholds == {Rat(1, 10), Rat(1, 2)}
(* line 184: get_history(module_type, limit=10) *)
HistoryLimit == 10

(* a row of table `performance_snapshots`; its place in `snapshots` is its rowid *)
NewSnapshot(timestamp, module_type, metrics) ==
    [timestamp |-> timestamp, module_type |-> module_type, metrics |-> metrics]

(* h["metrics"].get(metric_key, 0.0) *)
MetricOf(metrics) == IF metrics = <<>> THEN 0 ELSE metrics[1]

Min(a, b) == IF a < b THEN a ELSE b

(* the results ORDER BY timestamp DESC [LIMIT limit] allows for a set of rows: rows
   of one timestamp come in any order *)
RECURSIVE Orders(_, _)
Orders(snaps, S) ==
    IF S = {} THEN {<<>>}
    ELSE UNION {{<<i>> \o rest : rest \in Orders(snaps, S \ {i})} :
                   i \in {j \in S : \A k \in S : snaps[j].timestamp >= snaps[k].timestamp}}

Ordered(snaps, S, limit) ==
    {SubSeq(order, 1, Min(limit, Cardinality(S))) : order \in Orders(snaps, S)}

(* get_history, lines 122-165: SELECT ... WHERE module_type = ? *)
GetHistoryAllTypes(snaps, module_type, limit) ==
    Ordered(snaps, 1..Len(snaps), limit)

GetHistory(snaps, module_type, limit) ==
    Ordered(snaps, {i \in 1..Len(snaps) : snaps[i].module_type = module_type}, limit)

(* a tracker constructed over an existing database (CREATE TABLE IF NOT EXISTS):
   nine snapshots of m1 recorded in turn at increasing readings of the clock, the
   oldest one with another metric than the rest *)
StoredSnapshots ==
    [k \in 1..(HistoryLimit - 1) |->
        NewSnapshot(k - HistoryLimit, "m1", IF k = 1 THEN <<2>> ELSE <<1>>)]

PtCall == nops < MaxPTOps /\ nops' = nops + 1

(* lines 83-120 *)
RecordSnapshot ==
    /\ PtCall
    /\ \E module_type \in ModuleTypes, metrics \in SnapshotMetrics, timestamp \in Ticks :
          snapshots' = Append(snapshots, NewSnapshot(timestamp, module_type, metrics))
    /\ ptRes' = [NoPtRes EXCEPT !.op = "record"]
    /\ UNCHANGED <<registry, run, experiments, evaluations, abRes>>

(* lines 167-230 *)
DetectDegradation ==
    /\ PtCall
    /\ \E module_type \in ModuleTypes, threshold \in Thresholds :
          \E history \in GetHistory(snapshots, module_type, HistoryLimit) :
             LET called == [NoPtRes EXCEPT !.op = "detect", !.mt = module_type,
                                           !.history = history, !.threshold = threshold]
                 latest == RInt(MetricOf(snapshots[history[1]].metrics))
                 previous == [k \in 1..(Len(history) - 1) |->
                                 MetricOf(snapshots[history[k + 1]].metrics)]
                 baseline == Mean(previous)
                 drop_percent == RDiv(RSub(baseline, latest), baseline)
             IN ptRes' =
                   IF Len(history) < 2
                   THEN [called EXCEPT !.reason = "insufficient_data"]
                   ELSE IF baseline = RInt(0)
                   THEN [called EXCEPT !.reason = "zero_baseline",
                                       !.current_value = <<latest>>,
                                       !.baseline_value = <<baseline>>]
                   ELSE [called EXCEPT !.degradation_detected = RLess(threshold, drop_percent),
                                       !.reason = IF RLess(threshold, drop_percent)
                                                  THEN "threshold_exceeded"
                                                  ELSE "within_threshold",
                                       !.current_value = <<latest>>,
                                       !.baseline_value = <<baseline>>,
                                       !.drop_percent = <<drop_percent>>]
    /\ UNCHANGED <<registry, run, experiments, evaluations, abRes, snapshots>>

(* ---------------- optimization run (optimization/pipeline.py) ---------------- *)
(* optimize_rubric and optimize_judge have the same shape; the run makes its registry
   calls as caller "s", one at a time *)
MaxRuns == 1

Stages == <<"CollectBaseline", "RunOptimizer", "CollectOptimized", "RegisterResult",
            "ConditionallyActivate", "Done">>
Ended == {"Done", "Failed", "Cancelled"}

(* one evaluation of an example: <<>> when forward() or the metric raised, <<score>>
   otherwise *)
ExampleScores == {0, 20, 22}
ExampleOutcomes == {<<>>} \cup {<<v>> : v \in ExampleScores}
(* len(valset) *)
ValSetSizes == {2}
EvalOutcomes == UNION {[1..n -> ExampleOutcomes] : n \in ValSetSizes}

(* the loop with its try/except: a score is appended only when nothing raised *)
SurvivorsOrZero(outcomes) ==
    [k \in 1..Len(outcomes) |-> IF outcomes[k] = <<>> THEN 0 ELSE outcomes[k][1]]

RECURSIVE Survivors(_)
Survivors(outcomes) ==
    IF outcomes = <<>> THEN <<>>
    ELSE (IF Head(outcomes) = <<>> THEN <<>> ELSE Head(outcomes))
         \o Survivors(Tail(outcomes))

(* ((optimized_mean - baseline_mean) / baseline_mean * 100) if baseline_mean > 0
   else 0.0 *)
RunImprovement(baseline_mean, optimized_mean) ==
    IF RLess(RInt(0), baseline_mean)
    THEN RMul(RDiv(RSub(optimized_mean, baseline_mean), baseline_mean), RInt(100))
    ELSE RInt(0)

(* if improvement > 5.0 *)
ActivationThreshold == 5

ShouldActivateAtLeast(improvement) == ~ RLess(improvement, RInt(ActivationThreshold))

ShouldActivate(improvement) == RLess(RInt(ActivationThreshold), improvement)

Enter(r, stage) == [r EXCEPT !.stage = stage, !.trace = Append(@, stage)]

(* optimize_rubric(...) / optimize_judge(...) is called *)
StartRun ==
    /\ run.stage = "idle"
    /\ run.n < MaxRuns
    /\ pc["s"] = "idle"
    /\ \E module_type \in ModuleTypes :
          run' = Enter([NoRun EXCEPT !.module_type = module_type, !.db0 = db,
                                     !.files0 = files, !.n = run.n + 1],
                       "CollectBaseline")
    /\ UNCHANGED <<registry, bench, nops>>

(* the baseline loop and baseline_mean *)
EvaluateBaseline ==
    /\ run.stage = "CollectBaseline"
    /\ \E outcomes \in EvalOutcomes :
          run' = Enter([run EXCEPT !.baseline = outcomes,
                                   !.baseline_mean = Mean(Survivors(outcomes))],
                       "RunOptimizer")
    /\ UNCHANGED <<registry, bench, nops>>

(* optimizer.compile(...) returns the optimized module *)
OptimizerReturns ==
    /\ run.stage = "RunOptimizer"
    /\ \E module \in Artifacts :
          run' = Enter([run EXCEPT !.module = module], "CollectOptimized")
    /\ UNCHANGED <<registry, bench, nops>>

(* optimizer.compile(...) raises: logged and raised again; a failure that also
   stored what it had would be the second definition *)
OptimizerFailsRegistering ==
    /\ run.stage = "RunOptimizer"
    /\ run' = [run EXCEPT !.stage = "Failed", !.error = "OptimizerError"]
    /\ db' = InsertRow(db, "c", NewRow(run.module_type, GetNextVersion(db, run.module_type),
                                       NoPath))
    /\ UNCHANGED <<wdb, lock, files, pc, local, hist, bench, nops>>

OptimizerFails ==
    /\ run.stage = "RunOptimizer"
    /\ run' = [run EXCEPT !.stage = "Failed", !.error = "OptimizerError"]
    /\ UNCHANGED <<registry, bench, nops>>

(* the optimized loop, optimized_mean and improvement *)
EvaluateOptimized ==
    /\ run.stage = "CollectOptimized"
    /\ \E outcomes \in EvalOutcomes :
          LET optimized_mean == Mean(Survivors(outcomes))
          IN run' = Enter([run EXCEPT !.optimized = outcomes,
                                      !.optimized_mean = optimized_mean,
                                      !.improvement = RunImprovement(run.baseline_mean,
                                                                     optimized_mean)],
                          "RegisterResult")
    /\ UNCHANGED <<registry, bench, nops>>

(* KeyboardInterrupt and the like are not caught by `except Exception`: the run can be
   cancelled anywhere before the registry is called *)
Cancel ==
    /\ run.stage \in {"CollectBaseline", "RunOptimizer", "CollectOptimized"}
    /\ run' = [run EXCEPT !.stage = "Cancelled", !.error = "Cancelled"]
    /\ UNCHANGED <<registry, bench, nops>>

(* model_id = f"..._{uuid.uuid4().hex[:8]}": 32 random bits, which an id already in
   the table may share; registry.register_model(model_id, module_type, module) with no
   version *)
RunRegister ==
    /\ run.stage = "RegisterResult"
    /\ pc["s"] = "idle"
    /\ \E model_id \in Ids :
          /\ run' = [run EXCEPT !.model_id = model_id]
          /\ Call("s", [Idle EXCEPT !.op = "register", !.id = model_id,
                                    !.mt = run.module_type, !.art = run.module,
                                    !.kind = "auto",
                                    !.version = GetNextVersion(db, run.module_type)],
                  "reg_write")
    /\ UNCHANGED <<bench, db, wdb, lock, files, usedExplicit, hadDelete, nreg, maxEver, deletedActive, registered, lastActive>>

(* register_model returned, or raised: nothing catches the exception. A run that
   started over after a failed registration would be the second definition *)
RunRegisteredRetry ==
    /\ run.stage = "RegisterResult"
    /\ pc["s"] = "done"
    /\ run' = IF local["s"].result # "ok"
              THEN Enter(run, "RegisterResult")
              ELSE IF ShouldActivate(run.improvement)
              THEN Enter(run, "ConditionallyActivate")
              ELSE Enter(run, "Done")
    /\ pc' = [pc EXCEPT !["s"] = "idle"]
    /\ local' = [local EXCEPT !["s"] = Idle]
    /\ UNCHANGED <<bench, db, wdb, lock, files, nops, hist>>

RunRegistered ==
    /\ run.stage = "RegisterResult"
    /\ pc["s"] = "done"
    /\ run' = IF local["s"].result # "ok"
              THEN [run EXCEPT !.stage = "Failed", !.error = local["s"].result]
              ELSE IF ShouldActivate(run.improvement)
              THEN Enter(run, "ConditionallyActivate")
              ELSE Enter(run, "Done")
    /\ pc' = [pc EXCEPT !["s"] = "idle"]
    /\ local' = [local EXCEPT !["s"] = Idle]
    /\ UNCHANGED <<bench, db, wdb, lock, files, nops, hist>>

(* self.registry.set_active_model(model_id) *)
RunSetActive ==
    /\ run.stage = "ConditionallyActivate"
    /\ pc["s"] = "idle"
    /\ IF run.model_id \in DOMAIN db
       THEN Call("s", [Idle EXCEPT !.op = "set_active", !.id = run.model_id,
                                   !.mt = db[run.model_id].module_type], "sa_deactivate")
       ELSE Call("s", [Idle EXCEPT !.op = "set_active", !.id = run.model_id,
                                   !.result = "NotFound"], "done")
    /\ UNCHANGED <<bench, run, db, wdb, lock, files, usedExplicit, hadDelete, nreg, maxEver, deletedActive, registered, lastActive>>

RunActivated ==
    /\ run.stage = "ConditionallyActivate"
    /\ pc["s"] = "done"
    /\ run' = IF local["s"].result # "ok"
              THEN [run EXCEPT !.stage = "Failed", !.error = local["s"].result]
              ELSE Enter(run, "Done")
    /\ pc' = [pc EXCEPT !["s"] = "idle"]
    /\ local' = [local EXCEPT !["s"] = Idle]
    /\ UNCHANGED <<bench, db, wdb, lock, files, nops, hist>>

(* the result is returned, or the exception reaches the caller *)
RunReturn ==
    /\ run.stage \in Ended
    /\ run' = [NoRun EXCEPT !.n = run.n]
    /\ UNCHANGED <<registry, bench, nops>>

(* ---------------- specifications ---------------- *)
(* all operations, concurrently *)
Next ==
    \/ \E t \in Threads :
          \/ RegisterModel(t) \/ RegWriteFile(t) \/ RegInsertFails(t) \/ RegInsert(t) \/ RegCommit(t)
          \/ LoadModel(t) \/ LoadExists(t) \/ LoadRead(t)
          \/ SetActiveModel(t) \/ SaDeactivate(t) \/ SaActivate(t) \/ SaCommit(t)
          \/ DeleteModel(t) \/ DelUnlink(t) \/ DelDelete(t) \/ DelCommit(t)
          \/ ListModels(t) \/ Return(t)

Spec == InitOverStored /\ [][Next]_vars

(* register, set_active and the readers, concurrently; no delete *)
NextNoDelete ==
    \/ \E t \in Threads :
          \/ RegisterModel(t) \/ RegWriteFile(t) \/ RegInsertFails(t) \/ RegInsert(t) \/ RegCommit(t)
          \/ LoadModel(t) \/ LoadExists(t) \/ LoadRead(t)
          \/ SetActiveModel(t) \/ SaDeactivate(t) \/ SaActivate(t) \/ SaCommit(t)
          \/ ListModels(t) \/ Return(t)

SpecNoDelete == InitOverStored /\ [][NextNoDelete]_vars

(* all operations, one call at a time *)
NextSeq ==
    \/ \E t \in SeqThreads :
          \/ RegisterModel(t) \/ RegWriteFile(t) \/ RegInsertFails(t) \/ RegInsert(t) \/ RegCommit(t)
          \/ LoadModel(t) \/ LoadExists(t) \/ LoadRead(t)
          \/ SetActiveModel(t) \/ SaDeactivate(t) \/ SaActivate(t) \/ SaCommit(t)
          \/ DeleteModel(t) \/ DelUnlink(t) \/ DelDelete(t) \/ DelCommit(t)
          \/ ListModels(t) \/ Return(t)

SpecSeq == Init /\ [][NextSeq]_vars

(* the experiment store, one call at a time, from the empty store *)
InitBench == InitCommon /\ InitEmpty

NextAB ==
    \/ CreateExperiment \/ AssignVariant \/ RecordEvaluation
    \/ AnalyzeResults \/ StopExperiment \/ ListExperiments

SpecAB == InitBench /\ [][NextAB]_vars

(* the statistics of analyze_results over every pair of short score lists *)
NextStats == ComputeStatistics

SpecStats == InitBench /\ [][NextStats]_vars

(* the performance tracker, one call at a time, from the empty table *)
NextPT == RecordSnapshot \/ DetectDegradation

SpecPT == InitBench /\ [][NextPT]_vars

(* the performance tracker over the stored table *)
InitTrackerStored == InitCalls /\ InitEmpty /\ snapshots = StoredSnapshots

SpecPTStored == InitTrackerStored /\ [][NextPT]_vars

(* optimization runs over the registry: the run is the registry's only caller *)
RunStep ==
    \/ EvaluateBaseline \/ OptimizerReturns \/ OptimizerFails \/ EvaluateOptimized
    \/ RunRegister \/ RunRegistered \/ RunSetActive \/ RunActivated
    \/ \E t \in SeqThreads :
          \/ RegWriteFile(t) \/ RegInsertFails(t) \/ RegInsert(t) \/ RegCommit(t)
          \/ SaDeactivate(t) \/ SaActivate(t) \/ SaCommit(t)

NextRun == StartRun \/ RunStep \/ Cancel \/ RunReturn

SpecRun == Init /\ [][NextRun]_vars

(* every call the run makes returns or raises *)
SpecRunFair == Init /\ [][NextRun]_vars /\ WF_vars(RunStep)

(* ---------------- properties ---------------- *)
(* C1: whatever register and set_active calls have run, failed ones included, no
   module_type has more than one version with is_active = TRUE *)
C1_AtMostOneActive ==
    \A m \in ModuleTypes : Cardinality(ActiveIds(db, m)) <= 1

C1_Witness ==
    \E t \in Threads :
        /\ pc[t] = "done" /\ local[t].op = "set_active" /\ local[t].result = "ok"
        /\ local[t].id = "b" /\ ActiveIds(db, "m1") = {"b"}
        /\ Cardinality(RowsOfType(db, "m1")) >= 2

(* C2: while a module_type has one active version, no step of set_active lets the
   other threads see it with zero or two: the committed table keeps exactly one, an
   active-only list returns one row and an active-only load finds its row *)
C2_SetActiveAtomic ==
    [][\A m \in ModuleTypes :
          Cardinality(ActiveIds(db, m)) = 1 =>
             /\ Cardinality(ActiveIds(db', m)) = 1
             /\ \A t \in Threads :
                   (pc[t] = "idle" /\ pc'[t] # "idle" /\ local'[t].kind = "active"
                    /\ local'[t].mt = m) =>
                      /\ local'[t].op = "list" => Len(local'[t].listed) = 1
                      /\ local'[t].op = "load" => local'[t].result # "NotFound"]_vars

C2_Witness ==
    \E t, u \in Threads :
        /\ pc[t] = "sa_activate" /\ local[t].id = "b" /\ local[t].mt = "m1"
        /\ ActiveIds(wdb, "m1") = {} /\ ActiveIds(db, "m1") = {"a"}
        /\ pc[u] = "done" /\ local[u].op = "list" /\ local[u].kind = "active"
        /\ local[u].listed = <<"a">>

(* C3: two concurrent register calls with no explicit version for one module_type
   are never both assigned the same version number *)
C3_NoSharedVersion ==
    \A t, u \in Threads :
        (/\ t # u
         /\ pc[t] \in {"reg_write", "reg_insert", "reg_commit"}
         /\ pc[u] \in {"reg_write", "reg_insert", "reg_commit"}
         /\ local[t].kind = "auto" /\ local[u].kind = "auto"
         /\ local[t].mt = local[u].mt)
        => local[t].version # local[u].version

(* C4: a module_type registered N times in turn, never with an explicit version and
   with nothing deleted, stores exactly the versions 1..N *)
C4_Gapless ==
    \A m \in ModuleTypes :
        m \notin (usedExplicit \cup hadDelete) => VersionsOf(db, m) = 1..nreg[m]

C4_Witness ==
    /\ "m1" \notin (usedExplicit \cup hadDelete) /\ nreg["m1"] = 2
    /\ "m2" \notin (usedExplicit \cup hadDelete) /\ nreg["m2"] = 1

(* C5 as stated: a registration with no explicit version gets a version greater
   than every version registered before for its module_type, deleted ones included;
   the first one gets 1 *)
C5_AboveEveryEarlier ==
    \A t \in SeqThreads :
        (pc[t] = "reg_commit" /\ local[t].kind = "auto" /\ local[t].mt \notin usedExplicit)
        => /\ local[t].version > maxEver[local[t].mt]
           /\ nreg[local[t].mt] = 0 => local[t].version = 1

(* C5 amended: a registration with no explicit version gets a version greater than
   every version its module_type stores at that time, and 1 when it stores none *)
C5_AboveEveryStored ==
    \A t \in SeqThreads :
        (pc[t] = "reg_commit" /\ local[t].kind = "auto")
        => /\ \A i \in RowsOfType(db, local[t].mt) : local[t].version > db[i].version
           /\ RowsOfType(db, local[t].mt) = {} => local[t].version = 1

C5_Witness ==
    \E t \in SeqThreads :
        /\ pc[t] = "reg_commit" /\ local[t].kind = "auto"
        /\ RowsOfType(db, local[t].mt) # {}
        /\ local[t].version <= maxEver[local[t].mt]

(* C6: the second of two set_active(x) calls in a row succeeds and leaves the table
   as the first one left it, x being the one active version of its module_type *)
C6_Idempotent ==
    \A t \in SeqThreads :
        (pc[t] = "done" /\ local[t].op = "set_active" /\ prevSA.valid
         /\ prevSA.id = local[t].id)
        => /\ local[t].result = "ok"
           /\ db = prevSA.db
           /\ ActiveIds(db, local[t].mt) = {local[t].id}

C6_Witness ==
    \E t \in SeqThreads :
        /\ pc[t] = "done" /\ local[t].op = "set_active" /\ prevSA.n = 2
        /\ local[t].id = "b" /\ Cardinality(RowsOfType(db, "m1")) >= 2

(* C7: deleting the active version removes its row and its file and activates
   nothing; until a set_active succeeds the module_type has no active version and
   an active-only load reports not-found *)
C7_DeleteActive ==
    \A t \in SeqThreads :
        /\ (pc[t] = "done" /\ local[t].op = "delete" /\ local[t].kind = "active")
           => /\ local[t].id \notin DOMAIN db
              /\ local[t].path \notin DOMAIN files
              /\ ActiveIds(db, local[t].mt) = {}
        /\ \A m \in deletedActive :
              /\ ActiveIds(db, m) = {}
              /\ (pc[t] = "done" /\ local[t].op = "load" /\ local[t].kind = "active"
                  /\ local[t].mt = m) => local[t].result = "NotFound"

C7_Witness ==
    \E t \in SeqThreads :
        /\ "m1" \in deletedActive /\ RowsOfType(db, "m1") # {}
        /\ pc[t] = "done" /\ local[t].op = "load" /\ local[t].kind = "active"
        /\ local[t].mt = "m1" /\ local[t].result = "NotFound"

(* C8: load(id) returns the artifact given to the register call that stored id *)
C8_RoundTrip ==
    \A t \in SeqThreads :
        (pc[t] = "done" /\ local[t].op = "load" /\ local[t].kind = "id"
         /\ local[t].result = "ok")
        => local[t].value = registered[local[t].id]

(* C9: load reports NotFound when no row matches the lookup asked for, and
   ArtifactMissing when the matching row's file is absent *)
Requested(t) ==
    IF local[t].kind = "id" THEN {i \in DOMAIN db : i = local[t].id}
    ELSE IF local[t].kind = "version"
         THEN {i \in RowsOfType(db, local[t].mt) : db[i].version = local[t].version}
         ELSE ActiveIds(db, local[t].mt)

C9_LoadOutcome ==
    \A t \in SeqThreads :
        (pc[t] = "done" /\ local[t].op = "load")
        => /\ Requested(t) = {} => local[t].result = "NotFound"
           /\ (\E i \in Requested(t) : db[i].file_path \notin DOMAIN files)
                 => local[t].result = "ArtifactMissing"

(* C10: a set_active(id) that found id commits a table in which id is the only
   active version of its module_type *)
C10_ActivatesOrFails ==
    \A t \in Threads :
        pc[t] = "sa_commit"
        => /\ local[t].id \in DOMAIN wdb
           /\ ActiveIds(wdb, local[t].mt) = {local[t].id}

(* C11: a register call with no explicit version whose computed version was taken
   by a concurrent registration of its module_type does not fail to its caller *)
C11_VersionRaceRetried ==
    \A t \in Threads :
        ~ (/\ pc[t] = "done" /\ local[t].op = "register" /\ local[t].kind = "auto"
           /\ local[t].result = "IntegrityError"
           /\ local[t].value = "models.module_type, models.version")

(* C12: an experiment is created active, a stop_experiment(id) that finds id makes
   it stopped, and no call of the store removes an experiment or changes the status
   of a stopped one *)
C12_StoppedStays ==
    [][/\ \A e \in DOMAIN experiments' \ DOMAIN experiments :
             experiments'[e].status = "active"
       /\ (abRes'.op = "stop" /\ nops' # nops /\ abRes'.id \in DOMAIN experiments)
             => experiments'[abRes'.id].status = "stopped"
       /\ \A e \in DOMAIN experiments :
             /\ e \in DOMAIN experiments'
             /\ experiments[e].status = "stopped" => experiments'[e].status = "stopped"]_vars

C12_Witness ==
    /\ "e2" \in DOMAIN experiments
    /\ experiments["e1"].status = "stopped"
    /\ abRes.op = "stop" /\ abRes.id = "e1" /\ nops = 4

(* C13: every stored experiment has a split_ratio in (0, 1] *)
C13_SplitRatioInRange ==
    \A e \in DOMAIN experiments :
        /\ RLess(RInt(0), experiments[e].split_ratio)
        /\ ~ RLess(RInt(1), experiments[e].split_ratio)

(* C14: every stored evaluation has variant baseline or optimized *)
C14_VariantValidated ==
    \A i \in 1..Len(evaluations) : evaluations[i].variant \in {"baseline", "optimized"}

(* C15: after every call each evaluation's experiment_id is the id of a stored
   experiment, and the evaluations stored before the call are still there, unchanged *)
C15_OwnedAppendOnly ==
    [][/\ \A i \in 1..Len(evaluations') :
             evaluations'[i].experiment_id \in DOMAIN experiments'
       /\ Len(evaluations') >= Len(evaluations)
       /\ \A i \in 1..Len(evaluations) : evaluations'[i] = evaluations[i]]_vars

(* C16: analyze_results(id) fails with NotFound exactly when no evaluation is stored
   for id, whatever is stored for other ids, and a failing call changes nothing *)
C16_NotFoundIffNone ==
    [][(abRes'.op = "analyze" /\ nops' # nops) =>
          /\ (abRes'.result = "NotFound") <=>
                (~ \E i \in 1..Len(evaluations) : evaluations[i].experiment_id = abRes'.id)
          /\ abRes'.result = "NotFound" =>
                (experiments' = experiments /\ evaluations' = evaluations)]_vars

C16_Witness ==
    /\ abRes.op = "analyze" /\ abRes.result = "NotFound" /\ abRes.id = "e1"
    /\ "e1" \in DOMAIN experiments
    /\ Len(evaluations) = 1 /\ evaluations[1].experiment_id = "e2"

(* C17: the counts of analyze_results(id) are the numbers of evaluations recorded
   for id with variant baseline and optimized, and add up to the number of
   evaluations recorded for id *)
C17_CountsPartition ==
    (abRes.op = "analyze" /\ abRes.result = "ok") =>
        LET Of(variant) == {i \in 1..Len(evaluations) :
                               /\ evaluations[i].experiment_id = abRes.id
                               /\ evaluations[i].variant = variant}
            All == {i \in 1..Len(evaluations) : evaluations[i].experiment_id = abRes.id}
        IN /\ abRes.stats.baseline_count = Cardinality(Of("baseline"))
           /\ abRes.stats.optimized_count = Cardinality(Of("optimized"))
           /\ abRes.stats.baseline_count + abRes.stats.optimized_count = Cardinality(All)

(* C18 as stated: improvement_percent is (optimized_mean - baseline_mean) /
   baseline_mean * 100 for every baseline_mean other than 0, and is 0 exactly when
   baseline_mean is 0 *)
C18_ImprovementEveryNonZero ==
    abRes.op = "statistics" =>
        LET bm == Mean(abRes.baseline_scores)
            om == Mean(abRes.optimized_scores)
            improvement == abRes.stats.improvement_percent
        IN /\ bm # RInt(0) => RMul(improvement, bm) = RMul(RSub(om, bm), RInt(100))
           /\ (improvement = RInt(0)) <=> (bm = RInt(0))

(* C18 amended: improvement_percent is (optimized_mean - baseline_mean) /
   baseline_mean * 100 for every baseline_mean above 0, and 0 for every baseline_mean
   that is 0 or negative *)
C18_ImprovementPositive ==
    abRes.op = "statistics" =>
        LET bm == Mean(abRes.baseline_scores)
            om == Mean(abRes.optimized_scores)
            improvement == abRes.stats.improvement_percent
        IN /\ RLess(RInt(0), bm) => RMul(improvement, bm) = RMul(RSub(om, bm), RInt(100))
           /\ ~ RLess(RInt(0), bm) => improvement = RInt(0)

C18_Witness ==
    /\ abRes.op = "statistics"
    /\ \/ /\ abRes.baseline_scores = <<1, 2>> /\ abRes.optimized_scores = <<2, 2>>
          /\ abRes.stats.improvement_percent = Rat(100, 3)
       \/ /\ abRes.baseline_scores = <<-1>> /\ abRes.optimized_scores = <<2>>
          /\ abRes.stats.improvement_percent = RInt(0)

(* C19: with fewer than 3 samples in a group, or with no variance in either group,
   is_significant is false and p_value is 1.0; is_significant is true only with 3 or
   more samples in both groups and some variance *)
C19_NoVerdict ==
    abRes.op = "statistics" =>
        LET b == abRes.baseline_scores
            o == abRes.optimized_scores
            few == Len(b) < 3 \/ Len(o) < 3
            flat == /\ \A i, j \in 1..Len(b) : b[i] = b[j]
                    /\ \A i, j \in 1..Len(o) : o[i] = o[j]
        IN /\ (few \/ flat) => (~ abRes.stats.is_significant /\ abRes.stats.p_value = RInt(1))
           /\ abRes.stats.is_significant => (~ few /\ ~ flat)

C19_Witness ==
    /\ abRes.op = "statistics"
    /\ abRes.baseline_scores = <<1, 1, 1>> /\ abRes.optimized_scores = <<2, 2, 2>>
    /\ ~ abRes.stats.is_significant /\ abRes.stats.p_value = RInt(1)

RECURSIVE MetricSum(_)
MetricSum(S) ==
    IF S = {} THEN 0
    ELSE LET i == CHOOSE j \in S : TRUE
         IN MetricOf(snapshots[i].metrics) + MetricSum(S \ {i})

(* C20: detect_degradation of a module_type with fewer than 2 snapshots of its own
   answers false, insufficient_data; with 2 or more whose earlier ones (all but the
   newest) have a metric of mean 0 it answers false, zero_baseline; it answers true
   only with 2 or more snapshots and a mean other than 0 *)
C20_UsableBaseline ==
    ptRes.op = "detect" =>
        LET own == {i \in 1..Len(snapshots) : snapshots[i].module_type = ptRes.mt}
            newest == ptRes.history[1]
            zero == MetricSum(own \ {newest}) = 0
        IN /\ Cardinality(own) < 2 =>
                 (~ ptRes.degradation_detected /\ ptRes.reason = "insufficient_data")
           /\ (Cardinality(own) >= 2 /\ zero) =>
                 (/\ \A i \in own : snapshots[i].timestamp <= snapshots[newest].timestamp
                  /\ ~ ptRes.degradation_detected /\ ptRes.reason = "zero_baseline")
           /\ ptRes.degradation_detected => (Cardinality(own) >= 2 /\ ~ zero)

C20_Witness ==
    /\ ptRes.op = "detect" /\ ptRes.mt = "m1"
    /\ Len(snapshots) = 3
    /\ snapshots[1].module_type = "m2" /\ snapshots[2].module_type = "m2"
    /\ snapshots[3].module_type = "m1"
    /\ ptRes.reason = "insufficient_data"

(* C21: for a module_type with 2 or more snapshots, current is the metric of the
   snapshot recorded last and baseline the mean over the up to 9 recorded just
   before it; with a baseline other than 0 the answer is true, threshold_exceeded
   iff (baseline - current) / baseline > threshold, else false, within_threshold *)
RECURSIVE LastRecorded(_, _)
LastRecorded(S, n) ==
    IF n = 0 \/ S = {} THEN {}
    ELSE LET last == CHOOSE i \in S : \A j \in S : j <= i
         IN {last} \cup LastRecorded(S \ {last}, n - 1)

C21_LastRecordedAgainstBefore ==
    ptRes.op = "detect" =>
        LET own == {i \in 1..Len(snapshots) : snapshots[i].module_type = ptRes.mt}
            newest == CHOOSE i \in own : \A j \in own : j <= i
            before == LastRecorded(own \ {newest}, 9)
            current == RInt(MetricOf(snapshots[newest].metrics))
            baseline == Rat(MetricSum(before), Cardinality(before))
            exceeded == RLess(ptRes.threshold, RDiv(RSub(baseline, current), baseline))
        IN (Cardinality(own) >= 2 /\ MetricSum(before) # 0) =>
              /\ ptRes.current_value = <<current>>
              /\ ptRes.baseline_value = <<baseline>>
              /\ ptRes.degradation_detected = exceeded
              /\ ptRes.reason = IF exceeded THEN "threshold_exceeded" ELSE "within_threshold"

(* C22: while a run is before its RegisterResult stage, and after it was cancelled
   there or its optimizer call failed, the registry (table and artifact files) is what
   it was when the run started, and no transaction is open *)
C22_NoTraceBeforeRegister ==
    (\/ run.stage \in {"CollectBaseline", "RunOptimizer", "CollectOptimized", "Cancelled"}
     \/ run.stage = "Failed" /\ run.error = "OptimizerError")
    => /\ db = run.db0
       /\ files = run.files0
       /\ wdb = EmptyDb
       /\ lock = NoLock

(* the optimizer failed in a run over the stored registry *)
C22_Witness ==
    /\ run.stage = "Failed"
    /\ run.error = "OptimizerError"
    /\ run.db0 = StoredDb
    /\ db = StoredDb

(* C23: when a run has reached Done, the version it registered is active exactly when
   the improvement is above 5; otherwise set_active_model was not called, the version
   is inactive and the module type's active versions are those from before the run;
   a baseline mean that is not positive never activates *)
C23_ActiveIffAboveThreshold ==
    run.stage = "Done" =>
        LET above == RLess(RInt(5), run.improvement)
        IN /\ run.model_id \in RowsOfType(db, run.module_type)
           /\ db[run.model_id].is_active <=> above
           /\ above => ActiveIds(db, run.module_type) = {run.model_id}
           /\ ~ above =>
                 /\ \A k \in DOMAIN run.trace : run.trace[k] # "ConditionallyActivate"
                 /\ ActiveIds(db, run.module_type) = ActiveIds(run.db0, run.module_type)
           /\ ~ RLess(RInt(0), run.baseline_mean) => ~ above

(* a run over the stored registry ended with an improvement of exactly 5 percent:
   version "a" is still the active one *)
C23_Witness ==
    /\ run.stage = "Done"
    /\ run.improvement = RInt(5)
    /\ run.module_type = "m1"
    /\ ActiveIds(db, "m1") = {"a"}
    /\ run.model_id = "c"

(* the sum of the scores of the examples K of an evaluation *)
RECURSIVE ScoreSum(_, _)
ScoreSum(outcomes, K) ==
    IF K = {} THEN 0
    ELSE LET k == CHOOSE x \in K : TRUE
         IN outcomes[k][1] + ScoreSum(outcomes, K \ {k})

MeanOfSucceeded(outcomes, mean) ==
    LET ok == {k \in DOMAIN outcomes : outcomes[k] # <<>>}
    IN IF ok = {} THEN mean = RInt(0)
       ELSE mean = Rat(ScoreSum(outcomes, ok), Cardinality(ok))

(* C24: an example whose evaluation failed is left out of the mean, the mean of no
   surviving example is 0, and an evaluation with failed examples is followed by the
   next stage: the only errors that end a run are those of the optimizer and of the
   registry *)
C24_ExampleFailureTolerated ==
    /\ Len(run.trace) >= 2 =>
          /\ MeanOfSucceeded(run.baseline, run.baseline_mean)
          /\ run.trace[2] = "RunOptimizer"
    /\ Len(run.trace) >= 4 =>
          /\ MeanOfSucceeded(run.optimized, run.optimized_mean)
          /\ run.trace[4] = "RegisterResult"
    /\ run.stage = "Failed" =>
          /\ run.error \in {"OptimizerError", "IntegrityError", "NotFound"}
          /\ Len(run.trace) \in {2, 4, 5}

(* every example failed in both evaluations, one of two failed: the run registered its
   module *)
C24_Witness ==
    /\ run.stage = "Done"
    /\ run.baseline = <<<<>>, <<>>>>
    /\ run.optimized = <<<<>>, <<20>>>>
    /\ run.baseline_mean = RInt(0)
    /\ run.optimized_mean = RInt(20)
    /\ run.model_id \in DOMAIN db

(* the stages a run has entered are an initial part of the fixed order, with
   ConditionallyActivate possibly left out; the current stage is the last one entered
   unless the run was aborted *)
LinearRun ==
    /\ \A k \in DOMAIN run.trace :
          \/ run.trace[k] = Stages[k]
          \/ k = 5 /\ run.trace[k] = "Done"
    /\ run.stage \notin {"idle", "Failed", "Cancelled"} =>
          /\ run.trace # <<>>
          /\ run.stage = run.trace[Len(run.trace)]
    /\ run.stage = "idle" => run.trace = <<>>

(* the registry is called for a registration only once the optimized evaluation is
   over, and for an activation only once the registration is committed *)
RegistryCallsInOrder ==
    /\ (run.stage # "idle" /\ (local["s"].op = "register" \/ db # run.db0 \/ files # run.files0)) =>
          /\ Len(run.trace) >= 4
          /\ run.trace[3] = "CollectOptimized"
          /\ run.trace[4] = "RegisterResult"
    /\ local["s"].op = "set_active" =>
          /\ Len(run.trace) >= 5
          /\ run.trace[5] = "ConditionallyActivate"
          /\ run.model_id \in RowsOfType(db, run.module_type)
          /\ lock = NoLock => ActiveIds(db, run.module_type) \in 
                                 {ActiveIds(run.db0, run.module_type), {run.model_id}}

(* C25: a run enters its stages in the fixed order, each at most once, registers only
   after the optimized evaluation and activates only after the registration; when
   every call returns or raises, a run that has started ends in Done or is aborted *)
C25_LinearAndEnds ==
    /\ [](LinearRun /\ RegistryCallsInOrder)
    /\ (run.stage # "idle") ~> (run.stage \in Ended)

(* a run went through all six stages *)
C25_Witness ==
    /\ run.stage = "Done"
    /\ run.trace = Stages

(* C26: with at least 3 samples in both groups and a pooled standard error other than
   0, p_value is 0.05 when t > 1.96 (t * t > 3.8416) and 0.1 otherwise, and
   is_significant is true exactly when p_value is less than 1 - confidence_level *)
C26_SignificantBelowComplement ==
    LET b == abRes.baseline_scores
        o == abRes.optimized_scores
        se2 == SquaredError(b, Len(b) - 1, o, Len(o) - 1)
        diff == RSub(Mean(o), Mean(b))
        t2 == RDiv(RMul(diff, diff), se2)
    IN (/\ abRes.op = "statistics"
        /\ Len(b) >= 3
        /\ Len(o) >= 3
        /\ se2 # RInt(0)) =>
           /\ abRes.stats.p_value = IF RLess(Rat(38416, 10000), t2) THEN Rat(5, 100)
                                    ELSE Rat(1, 10)
           /\ abRes.stats.is_significant <=>
                 RLess(abRes.stats.p_value, RSub(RInt(1), abRes.confidence_level))

(* the rows of d are rows of e, equal but for the is_active flags of module_type *)
SameButFlags(d, e, module_type) ==
    \A i \in DOMAIN d :
        /\ i \in DOMAIN e
        /\ IF d[i].module_type = module_type
           THEN [e[i] EXCEPT !.is_active = d[i].is_active] = d[i]
           ELSE e[i] = d[i]

(* the artifact files of the rows of d are in fs what they are in files *)
SameArtifacts(d, fs) ==
    \A i \in DOMAIN d :
        d[i].file_path \in DOMAIN files =>
            /\ d[i].file_path \in DOMAIN fs
            /\ fs[d[i].file_path] = files[d[i].file_path]

(* C27: the steps of a register call that succeeds leave every stored row and its
   artifact file as they are, and its commit adds one row with is_active false, so the
   active versions of every module type stay the same; the table changes only at the
   commit of a register, of a set_active (flags of the one module type) or of a delete
   (rows removed) *)
C27_RegisterOnlyAdds ==
    [][\A t \in SeqThreads :
          /\ (/\ pc[t] \in {"reg_write", "reg_insert"}
              /\ ~ InsertViolates(db, local[t].id, local[t].mt, local[t].version)) =>
                /\ db' = db
                /\ SameArtifacts(db, files')
          /\ pc[t] = "reg_commit" =>
                /\ files' = files
                /\ local[t].id \notin DOMAIN db
                /\ DOMAIN db' = DOMAIN db \cup {local[t].id}
                /\ \A i \in DOMAIN db : db'[i] = db[i]
                /\ ~ db'[local[t].id].is_active
                /\ \A m \in ModuleTypes : ActiveIds(db', m) = ActiveIds(db, m)
          /\ db' # db => pc[t] \in {"reg_commit", "sa_commit", "del_commit"}
          /\ pc[t] = "sa_commit" =>
                /\ SameButFlags(db, db', local[t].mt)
                /\ DOMAIN db' = DOMAIN db
          /\ pc[t] = "del_commit" =>
                /\ DOMAIN db' = DOMAIN db \ {local[t].id}
                /\ \A i \in DOMAIN db' : db'[i] = db[i]
      ]_vars

(* a register succeeded over the stored registry: a is still the active version of m1,
   its artifact is still A *)
C27_Witness ==
    /\ \E t \in SeqThreads :
          /\ pc[t] = "done"
          /\ local[t].op = "register"
          /\ local[t].result = "ok"
          /\ local[t].mt = "m1"
          /\ local[t].id \in DOMAIN db
          /\ ~ db[local[t].id].is_active
    /\ ActiveIds(db, "m1") = {"a"}
    /\ files[db["a"].file_path] = Pickle("A")

(* no two rows share (module_type, version); every register that succeeded added a
   row of its own, so none replaced the row of an id already stored *)
UniqueVersions ==
    /\ \A i, j \in DOMAIN db :
          (i # j /\ db[i].module_type = db[j].module_type) => db[i].version # db[j].version
    /\ \A m \in ModuleTypes : Cardinality(RowsOfType(db, m)) = nreg[m]

(* an INSERT that would repeat an id or a (module_type, version) raises and changes
   neither the table nor any open transaction *)
DuplicateInsertFails ==
    \A t \in Threads :
        (/\ pc[t] = "reg_insert"
         /\ pc'[t] # "reg_insert"
         /\ \/ local[t].id \in DOMAIN db
            \/ \E i \in DOMAIN db : /\ db[i].module_type = local[t].mt
                                    /\ db[i].version = local[t].version)
        => /\ pc'[t] = "done"
           /\ local'[t].result = "IntegrityError"
           /\ db' = db
           /\ wdb' = wdb

(* C28: under every interleaving of register calls with default or explicit versions
   no two stored versions of a module type have the same version number and no two
   have the same id; a register whose insert would create a duplicate fails and
   inserts nothing *)
C28_NoDuplicateVersions ==
    /\ []UniqueVersions
    /\ [][DuplicateInsertFails]_vars

(* two concurrent registers with default versions were assigned the same version: one
   is stored, the other one failed at the insert *)
C28_Witness ==
    \E t \in Threads :
        /\ pc[t] = "done"
        /\ local[t].op = "register"
        /\ local[t].kind = "auto"
        /\ local[t].result = "IntegrityError"
        /\ local[t].value = "models.module_type, models.version"
        /\ local[t].id \notin DOMAIN db
        /\ \E i \in DOMAIN db : /\ db[i].module_type = local[t].mt
                                /\ db[i].version = local[t].version

(* C29: between calls every artifact file is referenced by a row, and the file of
   every stored version holds the artifact that version was registered with, whatever
   register calls failed at the insert *)
C29_NoPartialState ==
    \A t \in SeqThreads :
        pc[t] \in {"idle", "done"} =>
            /\ \A p \in DOMAIN files : \E i \in DOMAIN db : db[i].file_path = p
            /\ \A i \in DOMAIN db :
                  db[i].file_path \in DOMAIN files =>
                      Unpickle(files[db[i].file_path]) = registered[i]

(* C30: load(module_type) returns the artifact registered under the id of the last
   set_active that succeeded for the module type, and NotFound when there was none or
   that version has been deleted since *)
C30_LoadFollowsActivation ==
    \A t \in SeqThreads :
        (pc[t] = "done" /\ local[t].op = "load" /\ local[t].kind = "active") =>
            IF lastActive[local[t].mt] = ""
            THEN local[t].result = "NotFound"
            ELSE /\ local[t].result = "ok"
                 /\ local[t].value = registered[lastActive[local[t].mt]]

====
